---- MODULE Spec2Model ----
(***************************************************************************)
(* Night Train narrative engine (src/unnamed/part_001): the world state,   *)
(* the effect and ending engine, the scene resolver and the dialogue       *)
(* session manager, as a state machine over the browser's event loop.      *)
(*                                                                         *)
(* One action is one event-loop task: a DOM event handler run to its first *)
(* suspension point, a timer callback, or the continuation of the stream   *)
(* after an awaited fetch()/read() settles.  The handlers are the engine's *)
(* entry points and are guarded by exactly the conditions the code tests;  *)
(* the `disabled` attribute of the chat controls is presentation state.    *)
(* Time is kept as ages (time since an instant), which is all the code     *)
(* ever computes from Date.now().                                          *)
(***************************************************************************)
EXTENDS Integers, Sequences, FiniteSets, TLC

VARIABLES
    worldState,        \* the canonical save object (let worldState)
    saved,             \* localStorage[STORAGE_KEY]: <<>> or <<state>>
    isTransitioning,   \* let isTransitioning
    isStreaming,       \* let isStreaming
    currentAbortController, \* 0 (null) or the token of the controller held
    sinceRequest,      \* Date.now() - lastRequestTime, saturated at the cooldown
    streams,           \* the suspended streamLLM calls, one record each
    transition,        \* the pending 300 ms transition callback, if any
    graceTimers,       \* pending 1500 ms advanceToNextScene callbacks; history: stale
                       \* once a new game or the next loop began after they were set
    endingOverlay,     \* the ending shown by triggerEnding, NULL when hidden
    renderedChoices,   \* id of the scene whose choice buttons are displayed
    currentLocationIndex, \* let currentLocationIndex
    admitted,          \* history: submissions admitted since the loop began
    modelCalls,        \* history: streaming requests issued since the loop began
    inputs,            \* history: user events dispatched, counted up to MaxInputs
    pending,           \* the part of the response body the server has yet to send
    fullContent,       \* let fullContent of the streamLLM call last started
    textContent,       \* p.textContent: the narrativeText of that call, as shown
    chatInputDisabled  \* DOM.chatInput.disabled and DOM.btnSendChat.disabled

vars == <<worldState, saved, isTransitioning, isStreaming, currentAbortController,
          sinceRequest, streams, transition, graceTimers, endingOverlay,
          renderedChoices, currentLocationIndex, admitted, modelCalls, inputs,
          pending, fullContent, textContent, chatInputDisabled>>

-----------------------------------------------------------------------------
(* Bounds of the model *)

\* user events dispatched in a run of the whole engine
MaxInputs == 3
\* submissions admitted in a run of the turn budget
MaxAdmitted == 15

-----------------------------------------------------------------------------
(* Program constants *)

REQUEST_COOLDOWN_MS == 1500
STALL_TIMEOUT_MS == 15000
HARD_TIMEOUT_MS == 45000
GRACE_MS == 1500
MAX_TURNS == 15
MIN_SCENES_FOR_NORMAL == 5
HISTORY_LIMIT == 50
STAT_MIN == 0
STAT_MAX == 100

\* the step by which the model's clock advances
TickMs == REQUEST_COOLDOWN_MS

NULL == "null"
NaN == "NaN"

DEFAULT_STATE ==
    [ loop |-> 1,
      train_stability |-> 80,
      reality_noise |-> 0,
      inspector_trust |-> 30,
      anomaly_awareness |-> 0,
      flags |-> <<>>,
      playedScenes |-> <<>>,
      currentSceneId |-> "start",
      sceneCount |-> 0,
      turnCount |-> 0,
      dialogHistory |-> 0 ]

\* fields of worldState holding a JS number
NumberFields ==
    {"loop", "train_stability", "reality_noise", "inspector_trust",
     "anomaly_awareness", "sceneCount", "turnCount"}

Stats == {"train_stability", "reality_noise", "inspector_trust", "anomaly_awareness"}

-----------------------------------------------------------------------------
(* Helpers *)

Max(a, b) == IF a >= b THEN a ELSE b
Min(a, b) == IF a <= b THEN a ELSE b

\* a clamp that lets every value through
clampNone(value, min, max) == value

clamp(value, min, max) == Max(min, Min(max, value))

\* a halving that rounds up
FloorHalfUp(x) == (x + 1) \div 2

\* Math.floor(x * 0.5) for x >= 0
FloorHalf(x) == x \div 2

\* the outcomes of randomInt(min, max) the model draws: both ends of the range
randomInt(min, max) == {min, max}

SeqToSet(s) == {s[i] : i \in DOMAIN s}

RemoveAt(seq, i) == SubSeq(seq, 1, i - 1) \o SubSeq(seq, i + 1, Len(seq))

-----------------------------------------------------------------------------
(* Authored data: scenes.json is fetched at startup (loadScenes); the model *)
(* is run on the small scene document below.                                *)

NoEffects == <<>>
NoFlags == <<>>
NoConditions == <<>>

Choice(label, type, hasQuotes, effects, setFlags, ending, next) ==
    [ label |-> label, type |-> type, hasQuotes |-> hasQuotes, effects |-> effects,
      setFlags |-> setFlags, ending |-> ending, next |-> next ]

scenes ==
    << [ id |-> "start", random |-> FALSE, conditions |-> NoConditions,
         choices |-> <<
            Choice("wait", NULL, FALSE, NoEffects, NoFlags, NULL, NULL),
            Choice("look", NULL, FALSE, [train_stability |-> -1000], NoFlags, NULL, NULL),
            Choice("walk", "navigate", FALSE, NoEffects,
                   [met_inspector |-> TRUE], NULL, "inspector_01"),
            Choice("ask", NULL, TRUE, [reality_noise |-> 1000], NoFlags, NULL, NULL) >> ],
       [ id |-> "inspector_01", random |-> FALSE, conditions |-> NoConditions,
         choices |-> <<
            Choice("stare", "event", FALSE, NoEffects, NoFlags, NULL, NULL),
            Choice("leave", "action", FALSE, NoEffects, NoFlags, NULL, NULL),
            Choice("yield", "action", FALSE, [inspector_trust |-> -1000], NoFlags,
                   "detained", NULL) >> ],
       [ id |-> "event_glitch", random |-> TRUE,
         conditions |-> [flags |-> [met_inspector |-> TRUE]],
         choices |-> << >> ],
       [ id |-> "event_whisper", random |-> TRUE,
         conditions |-> [reality_noise |-> [min |-> 50]],
         choices |-> << >> ] >>

SceneIds == {scenes[i].id : i \in DOMAIN scenes}

\* scenes.find(s => s.id === sceneId): the index of the scene, 0 for undefined
FindScene(sceneId) ==
    IF sceneId \in SceneIds
    THEN (CHOOSE i \in DOMAIN scenes : scenes[i].id = sceneId)
    ELSE 0

-----------------------------------------------------------------------------
(* Effect and ending engine *)

\* worldState[key] + value, clamped, by the JS type of the field: a number
\* field is added to and clamped; a string field is concatenated with the
\* number, and Math.min/Math.max of that string is NaN
JsAddClamp(key, old, value) ==
    IF key \in NumberFields THEN clamp(old + value, STAT_MIN, STAT_MAX) ELSE NaN

applyEffects(ws, effects) ==
    [ key \in DOMAIN ws |->
        IF key \in DOMAIN effects /\ key # "flags" /\ key # "playedScenes"
        THEN JsAddClamp(key, ws[key], effects[key])
        ELSE ws[key] ]

EndingIds == {"train_anomaly", "detained", "awakening", "normal_arrival", "turn_limit"}

\* ENDINGS[endingId].condition(state)
EndingCondition(endingId, state) ==
    CASE endingId = "train_anomaly" -> state.train_stability <= 25
      [] endingId = "detained" -> state.inspector_trust >= 75 /\ state.reality_noise < 60
      [] endingId = "awakening" ->
            state.reality_noise >= 90 \/ state.anomaly_awareness >= 90
      [] endingId = "normal_arrival" -> state.sceneCount >= 50
      [] endingId = "turn_limit" -> state.turnCount >= MAX_TURNS

\* the priority list with its first and third entries exchanged
endingOrderSwapped == <<"awakening", "detained", "train_anomaly", "normal_arrival">>

endingOrder == <<"train_anomaly", "detained", "awakening", "normal_arrival">>

RECURSIVE checkEndingsFrom(_, _)
checkEndingsFrom(ws, i) ==
    IF i > Len(endingOrder) THEN NULL
    ELSE LET endingId == endingOrder[i] IN
         IF EndingCondition(endingId, ws)
         THEN IF endingId = "normal_arrival" /\ ws.sceneCount < MIN_SCENES_FOR_NORMAL
              THEN checkEndingsFrom(ws, i + 1)
              ELSE endingId
         ELSE checkEndingsFrom(ws, i + 1)

checkEndings(ws) == checkEndingsFrom(ws, 1)

\* an assignment that replaces the whole map
AssignFlagsWhole(flags, setFlags) == setFlags

\* Object.assign(flags, setFlags)
AssignFlags(flags, setFlags) ==
    [ k \in DOMAIN flags \cup DOMAIN setFlags |->
        IF k \in DOMAIN setFlags THEN setFlags[k] ELSE flags[k] ]

\* a requirement whose bounds are exclusive
RequirementHoldsExclusive(value, requirement) ==
    /\ ("exact" \in DOMAIN requirement => value = requirement.exact)
    /\ ("min" \in DOMAIN requirement => value > requirement.min)
    /\ ("max" \in DOMAIN requirement => value < requirement.max)
    /\ ("gte" \in DOMAIN requirement => value > requirement.gte)
    /\ ("lte" \in DOMAIN requirement => value < requirement.lte)

\* one numeric requirement of checkConditions: a number n is [exact |-> n], an
\* object carries any of min, max, gte, lte
RequirementHolds(value, requirement) ==
    /\ ("exact" \in DOMAIN requirement => value = requirement.exact)
    /\ ("min" \in DOMAIN requirement => ~(value < requirement.min))
    /\ ("max" \in DOMAIN requirement => ~(value > requirement.max))
    /\ ("gte" \in DOMAIN requirement => ~(value < requirement.gte))
    /\ ("lte" \in DOMAIN requirement => ~(value > requirement.lte))

checkConditions(ws, conditions) ==
    \A key \in DOMAIN conditions :
        IF key = "flags"
        THEN \A flagName \in DOMAIN conditions.flags :
                /\ flagName \in DOMAIN ws.flags
                /\ ws.flags[flagName] = conditions.flags[flagName]
        ELSE \/ key \notin DOMAIN ws
             \/ RequirementHolds(ws[key], conditions[key])

\* a filter that takes any unplayed scene whose conditions hold
AvailableScenesAny(ws) ==
    { i \in DOMAIN scenes :
        /\ scenes[i].id \notin SeqToSet(ws.playedScenes)
        /\ checkConditions(ws, scenes[i].conditions) }

\* the scenes selectNextScene filters in
AvailableScenes(ws) ==
    { i \in DOMAIN scenes :
        /\ scenes[i].id \notin SeqToSet(ws.playedScenes)
        /\ scenes[i].random
        /\ checkConditions(ws, scenes[i].conditions) }

-----------------------------------------------------------------------------
(* The engine's mutable state as one record, so that the code's functions   *)
(* compose as the calls do.  A function of the code is an operator from     *)
(* such a record to the record (or the set of possible records) after the   *)
(* call.                                                                    *)

Cur ==
    [ ws |-> worldState, saved |-> saved, isTransitioning |-> isTransitioning,
      isStreaming |-> isStreaming, ctl |-> currentAbortController,
      sinceRequest |-> sinceRequest, streams |-> streams, transition |-> transition,
      graceTimers |-> graceTimers, overlay |-> endingOverlay,
      rendered |-> renderedChoices, locIdx |-> currentLocationIndex,
      admitted |-> admitted, modelCalls |-> modelCalls, inputs |-> inputs,
      pending |-> pending, fullContent |-> fullContent,
      textContent |-> textContent, disabled |-> chatInputDisabled ]

Commit(m) ==
    /\ worldState' = m.ws
    /\ saved' = m.saved
    /\ isTransitioning' = m.isTransitioning
    /\ isStreaming' = m.isStreaming
    /\ currentAbortController' = m.ctl
    /\ sinceRequest' = m.sinceRequest
    /\ streams' = m.streams
    /\ transition' = m.transition
    /\ graceTimers' = m.graceTimers
    /\ endingOverlay' = m.overlay
    /\ renderedChoices' = m.rendered
    /\ currentLocationIndex' = m.locIdx
    /\ admitted' = m.admitted
    /\ modelCalls' = m.modelCalls
    /\ inputs' = m.inputs
    /\ pending' = m.pending
    /\ fullContent' = m.fullContent
    /\ textContent' = m.textContent
    /\ chatInputDisabled' = m.disabled

\* the state after a handler that a user event dispatched has run
Dispatch(m) == Commit([m EXCEPT !.inputs = Min(MaxInputs, @ + 1)])

\* JSON.stringify(worldState): a NaN is written as null.  The number fields of
\* the model always hold clamped numbers, and flags and playedScenes are never
\* the target of an effect, so currentSceneId is the field a NaN can sit in
JSONstringify(ws) ==
    [key \in DOMAIN ws |->
        IF key = "currentSceneId" /\ ws[key] = NaN THEN NULL ELSE ws[key]]

\* loadOrCreateState for a store holding the given text or nothing: JSON.parse,
\* then the fields of the parsed object laid over those of DEFAULT_STATE
loadOrCreateState(store) ==
    IF store = <<>> THEN DEFAULT_STATE
    ELSE LET parsed == store[1] IN
         [key \in DOMAIN DEFAULT_STATE \cup DOMAIN parsed |->
             IF key \in DOMAIN parsed THEN parsed[key] ELSE DEFAULT_STATE[key]]

saveState(m) == [m EXCEPT !.saved = <<JSONstringify(m.ws)>>]

\* dialogHistory is kept by its length: push, then shift once past the limit
PushHistory(len) ==
    LET pushed == len + 1 IN
    IF pushed > HISTORY_LIMIT THEN pushed - 1 ELSE pushed

addToHistory(m, text) ==
    IF text = "" THEN m
    ELSE saveState([m EXCEPT !.ws.dialogHistory = PushHistory(@)])

\* the same two statements on the entries themselves: push(entry), then
\* shift() once the array is longer than the limit
pushEntryDropNewest(history, entry) ==
    LET pushed == Append(history, entry) IN
    IF Len(pushed) > HISTORY_LIMIT THEN SubSeq(pushed, 1, Len(pushed) - 1) ELSE pushed

pushEntry(history, entry) ==
    LET pushed == Append(history, entry) IN
    IF Len(pushed) > HISTORY_LIMIT THEN Tail(pushed) ELSE pushed

\* addToHistory(role, text, ...) at time `now`, with dialogHistory kept as
\* the array of its entries
addEntryToHistory(m, role, text, now) ==
    IF text = "" THEN m
    ELSE saveState([m EXCEPT !.ws.dialogHistory =
                       pushEntry(@, [role |-> role, text |-> text, timestamp |-> now])])

\* triggerEnding(endingId) for an id of ENDINGS
triggerEnding(m, endingId) == saveState([m EXCEPT !.overlay = endingId])

hideEnding(m) == [m EXCEPT !.overlay = NULL]

-----------------------------------------------------------------------------
(* Scene system *)

NoTransition == [kind |-> "none", scene |-> NULL, loc |-> 0]

\* a push made whether or not the id is there
MarkPlayedAgain(played, sceneId) == Append(played, sceneId)

\* push sceneId unless playedScenes.includes(sceneId)
MarkPlayed(played, sceneId) ==
    IF sceneId \in SeqToSet(played) THEN played ELSE Append(played, sceneId)

\* showScene(sceneId) once the scene was found: lines 511-516 and the setTimeout
AcceptScene(m, sceneId) ==
    [m EXCEPT !.isTransitioning = TRUE,
              !.ws.currentSceneId = sceneId,
              !.ws.playedScenes = MarkPlayed(@, sceneId),
              !.transition = [kind |-> "scene", scene |-> sceneId, loc |-> 0]]

\* showScene(sceneId) for a sceneId that scenes.find finds
ShowFound(m, sceneId) ==
    IF m.isTransitioning THEN m ELSE AcceptScene(m, sceneId)

\* a selection that ends the game whatever the pool holds
SelectAndEnd(m) == {triggerEnding(m, "normal_arrival")}

\* selectNextScene() followed by `if (nextScene) showScene(nextScene.id); else
\* triggerEnding('normal_arrival')`: one outcome per scene randomInt can pick
SelectAndShow(m) ==
    IF AvailableScenes(m.ws) = {}
    THEN {triggerEnding(m, "normal_arrival")}
    ELSE {ShowFound(m, scenes[i].id) : i \in AvailableScenes(m.ws)}

\* a showScene without the guard of line 501
showSceneUnguarded(m, sceneId) ==
    IF FindScene(sceneId) = 0 THEN SelectAndShow(m)
    ELSE {AcceptScene(m, sceneId)}

showScene(m, sceneId) ==
    IF m.isTransitioning THEN {m}
    ELSE IF FindScene(sceneId) = 0 THEN SelectAndShow(m)
    ELSE {AcceptScene(m, sceneId)}

\* renderChoices(scene.choices): the buttons shown are those of scene sceneId
renderChoices(m, sceneId) == [m EXCEPT !.rendered = sceneId]

advanceToNextScene(m, nextId, fromPredefinedChoice) ==
    IF ~fromPredefinedChoice /\ (nextId = NULL \/ nextId = m.ws.currentSceneId)
    THEN IF FindScene(m.ws.currentSceneId) # 0
         THEN {renderChoices(m, m.ws.currentSceneId)}
         ELSE {m}
    ELSE IF nextId # NULL THEN showScene(m, nextId)
    ELSE SelectAndShow(m)

\* the callback showScene schedules after 300 ms
showSceneCallback(m) ==
    LET m1 == addToHistory(m, "text")
        m2 == renderChoices(m1, m.transition.scene)
    IN [saveState(m2) EXCEPT !.isTransitioning = FALSE, !.transition = NoTransition]

LOCATIONS ==
    << [id |-> "start", defaultSceneId |-> "start"],
       [id |-> "inspector", defaultSceneId |-> "inspector_01"],
       [id |-> "anomaly", defaultSceneId |-> "anomaly_01"],
       [id |-> "silent", defaultSceneId |-> "silent_01"],
       [id |-> "corridor", defaultSceneId |-> "corridor_01"] >>

RANDOM_EVENTS == {"event_glitch", "event_whisper"}

\* currentSceneId.startsWith('event_'), over the ids the model uses
StartsWithEvent(sceneId) == sceneId \in RANDOM_EVENTS

\* LOCATIONS.findIndex(...) of syncLocationIndex, 0-based, -1 when none matches:
\* the id of a location, an id that starts with it and '_', or its default scene
LocationIndexOf(sceneId) ==
    CASE sceneId \in {"start"} -> 0
      [] sceneId \in {"inspector", "inspector_01"} -> 1
      [] sceneId \in {"anomaly", "anomaly_01"} -> 2
      [] sceneId \in {"silent", "silent_01"} -> 3
      [] sceneId \in {"corridor", "corridor_01"} -> 4
      [] OTHER -> -1

syncLocationIndex(m) ==
    IF LocationIndexOf(m.ws.currentSceneId) # -1
    THEN [m EXCEPT !.locIdx = LocationIndexOf(m.ws.currentSceneId)]
    ELSE m

\* navigateScene(direction); isRandomEvent is Math.random() < 0.1 and eventId the
\* entry of RANDOM_EVENTS drawn
navigateScene(m, direction, isRandomEvent, eventId) ==
    IF m.isTransitioning \/ m.isStreaming THEN {m}
    ELSE IF m.ws.currentSceneId = NaN THEN {m}   \* NaN.startsWith: TypeError
    ELSE
    LET m1 == IF ~StartsWithEvent(m.ws.currentSceneId) THEN syncLocationIndex(m) ELSE m
    IN  IF isRandomEvent /\ ~StartsWithEvent(m1.ws.currentSceneId)
        THEN advanceToNextScene([m1 EXCEPT !.ws.sceneCount = @ + 1], eventId, TRUE)
        ELSE LET n == Len(LOCATIONS)
                 idx == IF direction = "prev" THEN (m1.locIdx - 1 + n) % n
                        ELSE (m1.locIdx + 1) % n
             IN {[m1 EXCEPT !.locIdx = idx,
                            !.isTransitioning = TRUE,
                            !.transition = [kind |-> "nav", scene |-> NULL, loc |-> idx]]}

\* the callback navigateScene schedules after 300 ms
navigateCallback(m) ==
    LET loc == LOCATIONS[m.transition.loc + 1]
        m1 == saveState([m EXCEPT !.ws.currentSceneId = loc.id])
        m2 == IF FindScene(loc.defaultSceneId) # 0
              THEN renderChoices(m1, loc.defaultSceneId)
              ELSE renderChoices(m1, NULL)
    IN [m2 EXCEPT !.isTransitioning = FALSE, !.transition = NoTransition]

-----------------------------------------------------------------------------
(* Dialogue session manager *)

\* lines 1071-1076: the callback of the 45 s timer logs a warning and nothing
\* else, so the timer changes no state and has no action of its own.
\* sinceChunk saturates one step past the delay of that timer
SinceChunkCap == HARD_TIMEOUT_MS + TickMs

Tokens(m) == {m.streams[i].token : i \in DOMAIN m.streams}

\* new AbortController(): an object distinct from every controller still referenced
NewToken(m) == CHOOSE t \in 1..(Len(m.streams) + 1) : t \notin Tokens(m)

\* controller.abort(): the signal of every fetch/read started with it is aborted
AbortToken(strs, token) ==
    [i \in DOMAIN strs |->
        IF strs[i].token = token THEN [strs[i] EXCEPT !.aborted = TRUE] ELSE strs[i]]

\* lines 1000-1004: cancel any ongoing request
CancelOngoing(m) ==
    IF m.ctl # 0
    THEN [m EXCEPT !.streams = AbortToken(@, m.ctl), !.ctl = 0]
    ELSE m

\* line 995: the cooldown test
CooldownActive(m) == m.sinceRequest < REQUEST_COOLDOWN_MS

\* a streaming test that never blocks
StillStreamingNever(m) == FALSE

\* line 1007: block if still streaming
StillStreaming(m) == m.isStreaming

\* streamLLM up to its first await: the fetch is issued with the controller's signal
StartStream(m) ==
    [m EXCEPT !.streams = Append(@, [token |-> m.ctl, phase |-> "fetch",
                                     aborted |-> FALSE, sinceChunk |-> 0]),
              !.fullContent = <<>>,
              !.textContent = <<>>,
              !.modelCalls = @ + 1]

\* lines 1023-1025: the turn is counted and saved
CountTurn(m) ==
    saveState([m EXCEPT !.ws.turnCount = @ + 1, !.admitted = @ + 1])

\* line 1029: the turn budget test
TurnLimitReached(m) == m.ws.turnCount >= MAX_TURNS

handleChatSubmit(m, text) ==
    IF text = "" THEN m
    ELSE IF CooldownActive(m) THEN m
    ELSE LET m1 == CancelOngoing(m) IN
         IF StillStreaming(m1) THEN m1
         ELSE LET m2 == [m1 EXCEPT !.sinceRequest = 0, !.disabled = TRUE]
                  m3 == addToHistory(m2, text)
                  m4 == CountTurn(m3)
              IN IF TurnLimitReached(m4)
                 THEN [triggerEnding([m4 EXCEPT !.isStreaming = FALSE], "turn_limit")
                          EXCEPT !.disabled = FALSE]
                 ELSE LET m5 == [m4 EXCEPT !.isStreaming = TRUE] IN
                      StartStream([m5 EXCEPT !.ctl = NewToken(m5)])

\* a finally block that leaves the streaming flag as it is
FinallyStillStreaming(m, i) ==
    [m EXCEPT !.ctl = 0, !.streams = RemoveAt(@, i), !.disabled = FALSE]

\* the finally block of handleChatSubmit, run when streamLLM call i returns or throws
FinallyIdle(m, i) ==
    [m EXCEPT !.isStreaming = FALSE, !.ctl = 0, !.streams = RemoveAt(@, i),
              !.disabled = FALSE]

\* an aborted read that leaves the loop as a finished one does
AbortedReadSettles(m, i) ==
    FinallyIdle([m EXCEPT !.ws = applyEffects(@, [reality_noise |-> 1]),
                          !.graceTimers = Append(@, [next |-> "inspector_01",
                                                     remaining |-> GRACE_MS,
                                                     stale |-> FALSE])], i)

\* the await of line 1085 or 1106 rejects with the AbortError: streamLLM throws
\* past lines 1164-1193, and the catch of line 1043 and the finally run
AbortedRead(m, i) == FinallyIdle(m, i)

\* line 1099: the stall test, made at the top of the read loop
Stalled(timeSinceLastChunk) == timeSinceLastChunk > STALL_TIMEOUT_MS

\* A parsed directive is [parsed, effects, ending, next]; parsed is FALSE when the
\* stream holds no structured block or JSON.parse throws.
NoDirective == [parsed |-> FALSE, effects |-> NoEffects, ending |-> NULL, next |-> NULL]
Directive(effects, ending, next) ==
    [parsed |-> TRUE, effects |-> effects, ending |-> ending, next |-> next]

\* lines 1183-1189: apply gameLogic; a triggerEnding that throws (no such ending)
\* is caught by the catch of line 1190
applyGameLogic(m, gameLogic) ==
    LET m1 == [m EXCEPT !.ws = applyEffects(@, gameLogic.effects)]
    IN  IF gameLogic.ending # NULL
        THEN IF gameLogic.ending \in EndingIds
             THEN triggerEnding(m1, gameLogic.ending)
             ELSE m1
        ELSE IF gameLogic.next # NULL
             THEN [m1 EXCEPT !.graceTimers =
                      Append(@, [next |-> gameLogic.next, remaining |-> GRACE_MS,
                                 stale |-> FALSE])]
             ELSE m1

\* a settlement that runs the directive phase a second time
settleTwice(m, narrativeText, gameLogic) ==
    LET m1 == addToHistory(m, narrativeText) IN
    IF gameLogic.parsed THEN applyGameLogic(applyGameLogic(m1, gameLogic), gameLogic)
    ELSE m1

\* lines 1164-1193: what streamLLM does once the read loop is left
settle(m, narrativeText, gameLogic) ==
    LET m1 == addToHistory(m, narrativeText) IN
    IF gameLogic.parsed THEN applyGameLogic(m1, gameLogic) ELSE m1

\* the top of the read loop, reached with the given time since the last chunk:
\* either the stall branch is taken and the loop is left, or the next read is awaited
LoopTop(m, i, timeSinceLastChunk, narrativeText, gameLogic) ==
    IF Stalled(timeSinceLastChunk)
    THEN FinallyIdle(settle(m, narrativeText, gameLogic), i)
    ELSE [m EXCEPT !.streams[i].phase = "read",
                   !.streams[i].sinceChunk = timeSinceLastChunk]

-----------------------------------------------------------------------------
(* The text of a stream.  Text is a sequence of tokens, each a piece of     *)
(* text that holds no part of a marker; the markers the parser looks for    *)
(* span several tokens, so that a delta can end inside one.                 *)

LT == "<"
SLASH == "/"
THINK == "think"
GT == ">"
SP == " "
\* the three backquotes of a code fence
FENCE == "fence"
JSON == "json"
LB == "{"
RB == "}"
COMMA == ","
WORD == "visible"
HIDDEN == "hidden"
EFFECTS == "effects:"
STAT == "train_stability:-10"
PLUS_STAT == "inspector_trust:+5"
CLEAN_STAT == "inspector_trust:5"
NEXT_KEY == "next:inspector_01"
ENDING_KEY == "ending:awakening"

\* s[i] exists and is tok
At(s, i, tok) == i \in DOMAIN s /\ s[i] = tok

\* \s* from index i: the first index from i on that holds no white space
SkipSpace(s, i) ==
    CHOOSE j \in i..(Len(s) + 1) :
        /\ j = Len(s) + 1 \/ s[j] # SP
        /\ \A k \in i..(j - 1) : s[k] = SP

\* the smallest element of a non-empty set of indices
FirstIndex(indices) == CHOOSE i \in indices : \A j \in indices : i <= j

\* String.prototype.trim
RECURSIVE trim(_)
trim(s) ==
    IF s = <<>> THEN s
    ELSE IF Head(s) = SP THEN trim(Tail(s))
    ELSE IF s[Len(s)] = SP THEN trim(SubSeq(s, 1, Len(s) - 1))
    ELSE s

\* /<\s*think\s*>/ matched at index i: the index of its last token, 0 for no match
OpenTagEnd(s, i) ==
    IF ~At(s, i, LT) THEN 0
    ELSE LET j == SkipSpace(s, i + 1) IN
         IF ~At(s, j, THINK) THEN 0
         ELSE LET k == SkipSpace(s, j + 1) IN
              IF At(s, k, GT) THEN k ELSE 0

\* /<\s*\/\s*think\s*>/ matched at index i: the index of its last token, 0 for no match
CloseTagEnd(s, i) ==
    IF ~At(s, i, LT) THEN 0
    ELSE LET j == SkipSpace(s, i + 1) IN
         IF ~At(s, j, SLASH) THEN 0
         ELSE LET k == SkipSpace(s, j + 1) IN
              IF ~At(s, k, THINK) THEN 0
              ELSE LET l == SkipSpace(s, k + 1) IN
                   IF At(s, l, GT) THEN l ELSE 0

\* a narrative that is never cut at the structured block
currentNarrativeWhole(content) == content

\* lines 1123-1126: everything before the first opening fence (fence, then json)
currentNarrative(content) ==
    LET opens == {i \in DOMAIN content : content[i] = FENCE /\ At(content, i + 1, JSON)}
    IN  IF opens = {} THEN content ELSE SubSeq(content, 1, FirstIndex(opens) - 1)

\* line 1132: remove every complete <think>...</think> block, from index i on;
\* the block ends at the first closing tag after the opening one
RECURSIVE StripThinkBlocks(_, _)
StripThinkBlocks(s, i) ==
    IF i > Len(s) THEN <<>>
    ELSE LET closes == IF OpenTagEnd(s, i) = 0 THEN {}
                       ELSE {c \in (OpenTagEnd(s, i) + 1)..Len(s) : CloseTagEnd(s, c) # 0}
         IN  IF closes # {}
             THEN StripThinkBlocks(s, CloseTagEnd(s, FirstIndex(closes)) + 1)
             ELSE <<s[i]>> \o StripThinkBlocks(s, i + 1)

\* lines 1135-1137: if the text includes <think, keep what precedes the first
\* match of /<\s*think/
HideUnclosed(s) ==
    IF \E i \in DOMAIN s : s[i] = LT /\ At(s, i + 1, THINK)
    THEN LET starts == {i \in DOMAIN s :
                          s[i] = LT /\ At(s, SkipSpace(s, i + 1), THINK)}
         IN  SubSeq(s, 1, FirstIndex(starts) - 1)
    ELSE s

\* line 1140: remove every orphaned closing tag, from index i on
RECURSIVE StripCloseTags(_, _)
StripCloseTags(s, i) ==
    IF i > Len(s) THEN <<>>
    ELSE IF CloseTagEnd(s, i) # 0 THEN StripCloseTags(s, CloseTagEnd(s, i) + 1)
    ELSE <<s[i]>> \o StripCloseTags(s, i + 1)

\* lines 1122-1142: the narrative displayed for the content received so far
displayNarrative(content) ==
    trim(StripCloseTags(HideUnclosed(StripThinkBlocks(currentNarrative(content), 1)), 1))

\* line 1174: fullContent.match(...) as [found, text]: the opening fence, white
\* space, then the text captured up to the next fence or, failing one, to the end
jsonMatch(content) ==
    LET opens == {i \in DOMAIN content : content[i] = FENCE /\ At(content, i + 1, JSON)}
    IN  IF opens = {} THEN [found |-> FALSE, text |-> <<>>]
        ELSE LET from == SkipSpace(content, FirstIndex(opens) + 2)
                 closes == {c \in from..Len(content) : content[c] = FENCE}
                 to == IF closes = {} THEN Len(content) ELSE FirstIndex(closes) - 1
             IN  [found |-> TRUE, text |-> SubSeq(content, from, to)]

\* the number of tokens of s equal to tok
Count(s, tok) == Cardinality({i \in DOMAIN s : s[i] = tok})

\* a repair that appends the brace whenever more were opened than closed
repairAlways(jsonStr) ==
    IF Count(jsonStr, LB) > Count(jsonStr, RB) THEN Append(jsonStr, RB) ELSE jsonStr

\* lines 1179-1181: append one '}' to a text that does not end with one and
\* opens more braces than it closes
repair(jsonStr) ==
    IF jsonStr # <<>> /\ jsonStr[Len(jsonStr)] = RB THEN jsonStr
    ELSE IF Count(jsonStr, LB) > Count(jsonStr, RB) THEN Append(jsonStr, RB)
    ELSE jsonStr

\* line 1182: jsonStr.replace(/:\s*\+(\d+)/g, ':$1')
cleanJsonStr(jsonStr) ==
    [i \in DOMAIN jsonStr |-> IF jsonStr[i] = PLUS_STAT THEN CLEAN_STAT ELSE jsonStr[i]]

\* white space between the tokens of a JSON text is insignificant
SelectSeq_NoSpace(tok) == tok # SP

\* the members the model's JSON texts are made of
StatDelta(tok) ==
    CASE tok = STAT -> [train_stability |-> -10]
      [] tok = CLEAN_STAT -> [inspector_trust |-> 5]

\* the object of the given stat members
EffectsOf(toks) ==
    IF toks = {} THEN NoEffects
    ELSE [key \in UNION {DOMAIN StatDelta(tok) : tok \in toks} |->
            LET tok == CHOOSE t \in toks : key \in DOMAIN StatDelta(t)
            IN  StatDelta(tok)[key]]

\* JSON.parse throws a SyntaxError
SyntaxError == [parsed |-> FALSE, effects |-> NoEffects, ending |-> NULL, next |-> NULL]

\* the members of the effects object from index i of t, then the rest of the
\* enclosing object: [at, toks] with at the index after the closing brace, 0
\* when the text is not JSON
RECURSIVE StatMembers(_, _, _)
StatMembers(t, i, toks) ==
    IF ~(i \in DOMAIN t /\ t[i] \in {STAT, CLEAN_STAT}) THEN [at |-> 0, toks |-> {}]
    ELSE IF At(t, i + 1, RB) THEN [at |-> i + 2, toks |-> toks \cup {t[i]}]
    ELSE IF At(t, i + 1, COMMA) THEN StatMembers(t, i + 2, toks \cup {t[i]})
    ELSE [at |-> 0, toks |-> {}]

\* an object of stat members starting at index i of t
StatObject(t, i) ==
    IF ~At(t, i, LB) THEN [at |-> 0, toks |-> {}]
    ELSE IF At(t, i + 1, RB) THEN [at |-> i + 2, toks |-> {}]
    ELSE StatMembers(t, i + 1, {})

\* the members of the top-level object from index i of t, value holding those
\* read so far; the closing brace is to be the last token
RECURSIVE Members(_, _, _)
Members(t, i, value) ==
    LET After(at, v) ==
            IF At(t, at, RB) THEN IF at = Len(t) THEN v ELSE SyntaxError
            ELSE IF At(t, at, COMMA) THEN Members(t, at + 1, v)
            ELSE SyntaxError
    IN  IF At(t, i, NEXT_KEY)
        THEN After(i + 1, [value EXCEPT !.next = "inspector_01"])
        ELSE IF At(t, i, ENDING_KEY)
        THEN After(i + 1, [value EXCEPT !.ending = "awakening"])
        ELSE IF At(t, i, EFFECTS)
        THEN LET object == StatObject(t, i + 1) IN
             IF object.at = 0 THEN SyntaxError
             ELSE After(object.at, [value EXCEPT !.effects = EffectsOf(object.toks)])
        ELSE SyntaxError

\* JSON.parse, over the texts the tokens above can spell
JSONparse(text) ==
    LET t == SelectSeq(text, SelectSeq_NoSpace) IN
    IF ~At(t, 1, LB) THEN SyntaxError
    ELSE IF At(t, 2, RB) THEN IF Len(t) = 2 THEN Directive(NoEffects, NULL, NULL)
                              ELSE SyntaxError
    ELSE Members(t, 2, Directive(NoEffects, NULL, NULL))

\* lines 1174-1183: the gameLogic the directive phase works on, NoDirective when
\* there is no block or JSON.parse throws
gameLogicOf(content) ==
    IF ~jsonMatch(content).found THEN NoDirective
    ELSE JSONparse(cleanJsonStr(repair(trim(jsonMatch(content).text))))

\* `if (narrativeText)` of line 1169, for the history, whose entries the model
\* only counts
NarrativeOf(text) == IF text = <<>> THEN "" ELSE "narrative"

-----------------------------------------------------------------------------
(* Choices, new game, next loop *)

\* lines 769-770 / 781-782 / 792-793: effects, then flags
ApplyChoice(m, choice) ==
    [m EXCEPT !.ws = [applyEffects(@, choice.effects)
                        EXCEPT !.flags = AssignFlags(@, choice.setFlags)]]

handleChoice(m, choice) ==
    IF m.isTransitioning \/ m.isStreaming THEN {m}
    ELSE
    LET isDialogue == choice.type = "dialogue" \/ (choice.type = NULL /\ choice.hasQuotes)
        isEvent == choice.type = "event"
        isNavigate == choice.type = "navigate"
        isAction == choice.type = "action"
        m1 == ApplyChoice(m, choice)
    IN  IF isDialogue \/ isEvent
        THEN {handleChatSubmit(m1, choice.label)}
        ELSE IF isNavigate \/ isAction
        THEN LET m2 == [m1 EXCEPT !.ws.sceneCount = @ + 1] IN
             IF choice.ending # NULL THEN {triggerEnding(m2, choice.ending)}
             ELSE advanceToNextScene(m2, choice.next, TRUE)
        ELSE IF choice.ending # NULL THEN {triggerEnding(m1, choice.ending)}
        ELSE IF checkEndings(m1.ws) # NULL THEN {triggerEnding(m1, checkEndings(m1.ws))}
        ELSE IF choice.next # NULL
        THEN advanceToNextScene([m1 EXCEPT !.ws.sceneCount = @ + 1], choice.next, TRUE)
        ELSE {handleChatSubmit(m1, choice.label)}

\* history: the timers pending when a new game or the next loop begins
Outlived(timers) == [i \in DOMAIN timers |-> [timers[i] EXCEPT !.stale = TRUE]]

startNewGame(m) ==
    LET m1 == [m EXCEPT !.ws = DEFAULT_STATE, !.locIdx = 0,
                        !.graceTimers = Outlived(@),
                        !.admitted = 0, !.modelCalls = 0]
    IN showScene(hideEnding(saveState(m1)), "start")

startNextLoop(m) ==
    UNION { showScene(hideEnding(saveState(
                [m EXCEPT !.ws.loop = @ + 1,
                          !.ws.train_stability = stability,
                          !.ws.reality_noise = Min(STAT_MAX, @ + 5),
                          !.ws.inspector_trust = trust,
                          !.ws.anomaly_awareness = Min(STAT_MAX, FloorHalf(@) + 10),
                          !.ws.playedScenes = <<>>,
                          !.ws.currentSceneId = "start",
                          !.ws.sceneCount = 0,
                          !.ws.turnCount = 0,
                          !.locIdx = 0,
                          !.graceTimers = Outlived(@),
                          !.admitted = 0, !.modelCalls = 0])), "start")
            : stability \in randomInt(75, 85), trust \in randomInt(20, 40) }

-----------------------------------------------------------------------------
(* Inputs the environment offers *)

\* the texts typed into the chat box, after trim()
ChatTexts == {"", "hello"}

\* a directive whose effects block names a stat, a counter and a collection
CounterEffects ==
    Directive([reality_noise |-> -1000, turnCount |-> -3, playedScenes |-> 1],
              NULL, NULL)

\* the directives a stream can end with
Directives ==
    { NoDirective,
      CounterEffects,
      Directive(NoEffects, NULL, "inspector_01"),
      Directive(NoEffects, "awakening", NULL) }

\* the narrative a stream displays, after the reasoning filter and trim()
Narratives == {"", "narrative"}

-----------------------------------------------------------------------------
(* The state machine *)

\* the state init() leaves when loadOrCreateState produced `state` and the
\* store holds `store`: showScene(state.currentSceneId) has been accepted
InitWith(state, store) ==
    /\ worldState = [state EXCEPT !.playedScenes = MarkPlayed(@, state.currentSceneId)]
    /\ saved = store
    /\ isTransitioning = TRUE
    /\ isStreaming = FALSE
    /\ currentAbortController = 0
    /\ sinceRequest = REQUEST_COOLDOWN_MS
    /\ streams = <<>>
    /\ transition = [kind |-> "scene", scene |-> state.currentSceneId, loc |-> 0]
    /\ graceTimers = <<>>
    /\ endingOverlay = NULL
    /\ renderedChoices = NULL
    /\ currentLocationIndex = 0
    /\ admitted = 0
    /\ modelCalls = 0
    /\ inputs = 0
    /\ fullContent = <<>>
    /\ textContent = <<>>
    /\ chatInputDisabled = FALSE

\* first visit: no save in the store.  The body of a response is left to
\* ReadChunk and ReadDoneOf, which draw what it parses to
Init == InitWith(DEFAULT_STATE, <<>>) /\ pending = <<>>

\* A rejected promise of an aborted fetch/read is delivered in the microtask
\* checkpoint that follows the task calling abort(), before any other task.
AbortPending == \E i \in DOMAIN streams : streams[i].aborted

\* a task can start
Ready == ~AbortPending

\* the submit handler runs with one of the given texts in the box
ChatSubmitOf(texts) ==
    /\ Ready
    /\ \E text \in texts : Dispatch(handleChatSubmit(Cur, text))

\* the choice buttons shown are those of the scene last rendered
RenderedChoiceList ==
    IF FindScene(renderedChoices) = 0 THEN << >>
    ELSE scenes[FindScene(renderedChoices)].choices

\* a click on one of the rendered buttons whose position is in `positions`
ChoiceClickOf(positions) ==
    /\ Ready
    /\ \E k \in DOMAIN RenderedChoiceList \cap positions :
         \E m \in handleChoice(Cur, RenderedChoiceList[k]) : Dispatch(m)

\* the single "continue" button renderChoices shows for an empty choice list
ContinueClickOn ==
    /\ Ready
    /\ Len(RenderedChoiceList) = 0
    /\ \E m \in advanceToNextScene(Cur, NULL, FALSE) : Dispatch(m)

NavigateOf(directions) ==
    /\ Ready
    /\ \E direction \in directions, isRandomEvent \in BOOLEAN,
          eventId \in RANDOM_EVENTS :
         \E m \in navigateScene(Cur, direction, isRandomEvent, eventId) : Dispatch(m)

NewGameClick ==
    /\ Ready
    /\ \E m \in startNewGame(Cur) : Dispatch(m)

NextLoopClick ==
    /\ Ready
    /\ \E m \in startNextLoop(Cur) : Dispatch(m)

TransitionTimer ==
    /\ Ready
    /\ transition.kind # "none"
    /\ Commit(IF transition.kind = "scene" THEN showSceneCallback(Cur)
              ELSE navigateCallback(Cur))

\* a callback scheduled by line 1189 runs
GraceTimer ==
    /\ Ready
    /\ \E i \in DOMAIN graceTimers :
         /\ graceTimers[i].remaining = 0
         /\ \E m \in advanceToNextScene(
                        [Cur EXCEPT !.graceTimers = RemoveAt(@, i)],
                        graceTimers[i].next, FALSE) : Commit(m)

\* fetch() resolves with an ok response: lines 1088-1098, then the first read
FetchOk ==
    /\ Ready
    /\ \E i \in DOMAIN streams :
         /\ streams[i].phase = "fetch"
         /\ Commit(LoopTop(Cur, i, 0, "", NoDirective))

\* fetch() rejects, resolves with a non-OK status, or a read rejects: streamLLM
\* throws, the catch shows the system message, the finally returns to Idle
StreamFails ==
    /\ Ready
    /\ \E i \in DOMAIN streams : Commit(FinallyIdle(Cur, i))

\* reader.read() resolves with a chunk: lastChunkTime = Date.now(), the lines are
\* processed, and the loop returns to its top
ReadChunk ==
    /\ Ready
    /\ \E i \in DOMAIN streams :
         /\ streams[i].phase = "read"
         /\ \E narrativeText \in Narratives, gameLogic \in Directives :
              Commit(LoopTop(Cur, i, 0, narrativeText, gameLogic))

\* reader.read() resolves with done: the loop is left and the turn settles with
\* one of the given narratives and directives
ReadDoneOf(narratives, directives) ==
    /\ Ready
    /\ \E i \in DOMAIN streams :
         /\ streams[i].phase = "read"
         /\ \E narrativeText \in narratives, gameLogic \in directives :
              Commit(FinallyIdle(settle(Cur, narrativeText, gameLogic), i))

\* the AbortError of an aborted fetch/read reaches handleChatSubmit's catch/finally
AbortReaction ==
    \E i \in DOMAIN streams :
        /\ streams[i].aborted
        /\ Commit(AbortedRead(Cur, i))

\* time passes by TickMs; a timer that is due runs first, and so does the 300 ms
\* transition callback, which is due within any step of the clock
Tick ==
    /\ Ready
    /\ transition.kind = "none"
    /\ \A i \in DOMAIN graceTimers : graceTimers[i].remaining > 0
    /\ sinceRequest' = Min(REQUEST_COOLDOWN_MS, sinceRequest + TickMs)
    /\ streams' = [i \in DOMAIN streams |->
                     IF streams[i].phase = "read"
                     THEN [streams[i] EXCEPT
                             !.sinceChunk = Min(SinceChunkCap, @ + TickMs)]
                     ELSE streams[i]]
    /\ graceTimers' = [i \in DOMAIN graceTimers |->
                         [graceTimers[i] EXCEPT !.remaining = Max(0, @ - TickMs)]]
    /\ UNCHANGED <<worldState, saved, isTransitioning, isStreaming,
                   currentAbortController, transition, endingOverlay,
                   renderedChoices, currentLocationIndex, admitted, modelCalls,
                   inputs, pending, fullContent, textContent,
                   chatInputDisabled>>

-----------------------------------------------------------------------------
(* The engine as a whole, in runs of at most MaxInputs user events *)

Budget == inputs < MaxInputs

ChatSubmit == Budget /\ ChatSubmitOf(ChatTexts)

ChoiceClick == Budget /\ ChoiceClickOf(DOMAIN RenderedChoiceList)

ContinueClick == Budget /\ ContinueClickOn

Navigate == Budget /\ NavigateOf({"prev", "next"})

NewGame == Budget /\ NewGameClick

NextLoop == Budget /\ NextLoopClick

ReadDone == ReadDoneOf(Narratives, Directives)

Next ==
    \/ ChatSubmit
    \/ ChoiceClick
    \/ ContinueClick
    \/ Navigate
    \/ NewGame
    \/ NextLoop
    \/ TransitionTimer
    \/ GraceTimer
    \/ FetchOk
    \/ StreamFails
    \/ ReadChunk
    \/ ReadDone
    \/ AbortReaction
    \/ Tick

Spec == Init /\ [][Next]_vars

-----------------------------------------------------------------------------
(* Ending evaluation over loaded saves: init() finds a save whose stats and  *)
(* scene count sit on either side of every ending threshold, and the player *)
(* clicks the free-form choice, which handleChoice answers with checkEndings *)

LoadedSaves ==
    { [DEFAULT_STATE EXCEPT !.train_stability = ts, !.reality_noise = rn,
                            !.inspector_trust = it, !.anomaly_awareness = aa,
                            !.sceneCount = sc, !.playedScenes = <<"start">>,
                            !.dialogHistory = 1] :
        ts \in {25, 26}, rn \in {0, 60, 90}, it \in {30, 75}, aa \in {0, 90},
        sc \in {4, 5, 50} }

InitEndings == pending = <<>> /\ \E save \in LoadedSaves : InitWith(save, <<save>>)

\* the first button of scene "start": no type, no quotes, no effects, no target
FreeChoice == ChoiceClickOf({1})

NextEndings ==
    \/ TransitionTimer
    \/ FreeChoice

SpecEndings == InitEndings /\ [][NextEndings]_vars

-----------------------------------------------------------------------------
(* The turn budget: chat turns only, each settling with or without a         *)
(* directive whose effects name turnCount                                    *)

TurnSubmit ==
    /\ admitted < MaxAdmitted
    /\ ChatSubmitOf({"hello"})

TurnSettles == ReadDoneOf({"narrative"}, {NoDirective, CounterEffects})

NextTurns ==
    \/ TransitionTimer
    \/ TurnSubmit
    \/ FetchOk
    \/ TurnSettles
    \/ AbortReaction
    \/ Tick

SpecTurns == Init /\ [][NextTurns]_vars

-----------------------------------------------------------------------------
(* Settling: chat turns whose directives carry a small delta, a target scene *)
(* or an ending, and the timers they schedule                                *)

SettleDirectives ==
    { NoDirective,
      Directive([anomaly_awareness |-> 7], NULL, NULL),
      Directive([inspector_trust |-> 7], NULL, "inspector_01"),
      Directive([reality_noise |-> 7], "awakening", "inspector_01"),
      Directive([train_stability |-> -7], "nowhere", NULL) }

SettleSubmit == Budget /\ ChatSubmitOf({"hello"})

SettleDone == ReadDoneOf(Narratives, SettleDirectives)

NextSettle ==
    \/ TransitionTimer
    \/ SettleSubmit
    \/ FetchOk
    \/ SettleDone
    \/ GraceTimer
    \/ AbortReaction
    \/ Tick

SpecSettle == Init /\ [][NextSettle]_vars

-----------------------------------------------------------------------------
(* The stream parser: one chat turn whose response body is spelled out.  The *)
(* body is a reasoning part, a visible part and a structured block; it      *)
(* arrives in deltas of any length, and the stream can end after any of     *)
(* them, so that every truncation of every body is settled.                 *)

ThinkParts ==
    { <<>>,
      <<LT, THINK, GT, HIDDEN, LT, SLASH, THINK, GT>>,
      <<LT, SP, THINK, GT, HIDDEN, SP, LT, SLASH, SP, THINK, SP, GT>> }

VisibleParts ==
    { <<>>,
      <<WORD>>,
      <<SP, WORD, SP, WORD, SP>> }

BlockParts ==
    { <<>>,
      <<FENCE, JSON, SP, LB, EFFECTS, LB, STAT, RB, COMMA, NEXT_KEY, RB, SP, FENCE>>,
      <<FENCE, JSON, LB, EFFECTS, LB, PLUS_STAT, COMMA, STAT, RB, RB, FENCE>>,
      <<FENCE, JSON, LB, EFFECTS, LB, STAT, RB, COMMA, ENDING_KEY, RB, FENCE>>,
      <<FENCE, JSON, LB, EFFECTS, LB, STAT, RB, COMMA, NEXT_KEY, FENCE>>,
      <<FENCE, JSON, LB, EFFECTS, WORD, RB, FENCE>> }

Bodies == {t \o v \o b : t \in ThinkParts, v \in VisibleParts, b \in BlockParts}

InitParser == InitWith(DEFAULT_STATE, <<>>) /\ pending \in Bodies

ParserSubmit == modelCalls = 0 /\ ChatSubmitOf({"hello"})

\* reader.read() resolves with a chunk holding the next delta: lines 1109-1150,
\* then the top of the loop
ReadDelta ==
    /\ Ready
    /\ \E i \in DOMAIN streams :
         /\ streams[i].phase = "read"
         /\ \E k \in 1..Len(pending) :
              LET delta == SubSeq(pending, 1, k)
                  m == [Cur EXCEPT !.pending = SubSeq(pending, k + 1, Len(pending)),
                                   !.fullContent = @ \o delta,
                                   !.textContent = displayNarrative(fullContent \o delta)]
              IN  Commit(LoopTop(m, i, 0, NarrativeOf(m.textContent), NoDirective))

\* reader.read() resolves with done, whatever part of the body has arrived
ReadEnd == ReadDoneOf({NarrativeOf(textContent)}, {gameLogicOf(fullContent)})

NextParser ==
    \/ TransitionTimer
    \/ ParserSubmit
    \/ FetchOk
    \/ ReadDelta
    \/ ReadEnd

SpecParser == InitParser /\ [][NextParser]_vars

-----------------------------------------------------------------------------
(* The wire: the response body as the proxy writes it, one line             *)
(* `data: <json>` per delta, each followed by an empty line, and the        *)
(* sentinel line.  A data line is spelled as its start (`data: ` and the    *)
(* JSON text up to the delta), the delta, and the rest of the JSON text; the *)
(* network cuts the body into chunks at any token.                          *)

DATA_OPEN == "data: {"
DATA_CLOSE == "}"
NL == "newline"
DONE == "data: [DONE]"

\* res.write of the proxy for one delta
DataLine(delta) == <<DATA_OPEN, delta, DATA_CLOSE, NL, NL>>

\* the deltas the model provider sends before the sentinel
SentDeltas == <<WORD, SP, WORD>>

Wires ==
    LET lines == DataLine(SentDeltas[1]) \o DataLine(SentDeltas[2]) \o DataLine(SentDeltas[3])
    IN  { lines \o <<DONE, NL, NL>>,
          lines \o <<DONE, NL, NL>> \o DataLine(HIDDEN) }

\* lines 1111-1153 for one chunk, from the line that starts at index i: the
\* chunk is split at the newlines; a line that is a whole data line adds its
\* delta; the sentinel breaks the loop over the lines of this chunk; a line
\* whose JSON text does not parse, and a line that does not start with
\* `data: `, are passed over
RECURSIVE processLines(_, _, _)
processLines(content, chunk, i) ==
    IF i > Len(chunk) THEN content
    ELSE LET ends == {j \in i..Len(chunk) : chunk[j] = NL}
             to == IF ends = {} THEN Len(chunk) + 1 ELSE FirstIndex(ends)
             line == SubSeq(chunk, i, to - 1)
         IN  IF line = <<DONE>> THEN content
             ELSE IF Len(line) = 3 /\ line[1] = DATA_OPEN /\ line[3] = DATA_CLOSE
             THEN processLines(content \o <<line[2]>>, chunk, to + 1)
             ELSE processLines(content, chunk, to + 1)

InitWire == InitWith(DEFAULT_STATE, <<>>) /\ pending \in Wires

\* reader.read() resolves with the next chunk of the body
WireChunk ==
    /\ Ready
    /\ \E i \in DOMAIN streams :
         /\ streams[i].phase = "read"
         /\ \E k \in 1..Len(pending) :
              LET content == processLines(fullContent, SubSeq(pending, 1, k), 1)
                  m == [Cur EXCEPT !.pending = SubSeq(pending, k + 1, Len(pending)),
                                   !.fullContent = content,
                                   !.textContent = displayNarrative(content)]
              IN  Commit(LoopTop(m, i, 0, NarrativeOf(m.textContent), NoDirective))

\* reader.read() resolves with done once the proxy has ended the response
WireEnd == pending = <<>> /\ ReadEnd

NextWire ==
    \/ TransitionTimer
    \/ ParserSubmit
    \/ FetchOk
    \/ WireChunk
    \/ WireEnd

SpecWire == InitWire /\ [][NextWire]_vars

-----------------------------------------------------------------------------
(* Random selection: init() finds a save made in the inspector's car, with  *)
(* the random scenes played or not and their conditions on either side, and *)
(* the player clicks "leave", an action choice with no target, which        *)
(* advanceToNextScene answers with selectNextScene                          *)

SelectionSaves ==
    { [DEFAULT_STATE EXCEPT !.currentSceneId = "inspector_01",
                            !.playedScenes = first \o <<"inspector_01">> \o played,
                            !.flags = flags,
                            !.reality_noise = noise,
                            !.dialogHistory = 2] :
        first \in {<<>>, <<"start">>},
        played \in {<<>>, <<"event_glitch">>, <<"event_whisper">>,
                    <<"event_glitch", "event_whisper">>},
        flags \in {NoFlags, [met_inspector |-> TRUE], [met_inspector |-> FALSE]},
        noise \in {0, 49, 50, 100} }

InitSelect == pending = <<>> /\ \E save \in SelectionSaves : InitWith(save, <<save>>)

\* the second button of scene inspector_01
LeaveChoice == Budget /\ ChoiceClickOf({2})

NextSelect ==
    \/ TransitionTimer
    \/ LeaveChoice

SpecSelect == InitSelect /\ [][NextSelect]_vars

-----------------------------------------------------------------------------
(* An unknown target: over the same saves, chat turns whose directive names *)
(* a scene the document does not hold                                       *)

UnknownNext == Directive(NoEffects, NULL, "nowhere")

UnknownSubmit == Budget /\ ChatSubmitOf({"hello"})

UnknownSettles == ReadDoneOf({"narrative"}, {UnknownNext})

NextUnknown ==
    \/ TransitionTimer
    \/ UnknownSubmit
    \/ FetchOk
    \/ UnknownSettles
    \/ GraceTimer
    \/ AbortReaction
    \/ Tick

SpecUnknown == InitSelect /\ [][NextUnknown]_vars

-----------------------------------------------------------------------------
(* The default ending: over the saves of the two sections above, choices of *)
(* every kind and chat turns whose directive names an unknown scene         *)

InitArrival ==
    /\ pending = <<>>
    /\ \E save \in SelectionSaves \cup LoadedSaves : InitWith(save, <<save>>)

NextArrival ==
    \/ TransitionTimer
    \/ ChoiceClick
    \/ UnknownSubmit
    \/ FetchOk
    \/ UnknownSettles
    \/ GraceTimer
    \/ AbortReaction
    \/ Tick

SpecArrival == InitArrival /\ [][NextArrival]_vars

-----------------------------------------------------------------------------
(* Loop advance: init() finds a save with the carried stats at even, odd and *)
(* extreme values, flags set or not, and the player starts the next loop    *)

LoopSaves ==
    { [DEFAULT_STATE EXCEPT !.loop = loop,
                            !.reality_noise = noise,
                            !.anomaly_awareness = awareness,
                            !.flags = flags,
                            !.playedScenes = <<"start", "inspector_01">>,
                            !.sceneCount = count,
                            !.turnCount = count,
                            !.dialogHistory = history] :
        loop \in {1, 2},
        noise \in {0, 95, 96, 100},
        awareness \in {0, 7, 90, 100},
        flags \in {NoFlags, [met_inspector |-> TRUE]},
        count \in {0, 5},
        history \in {1, HISTORY_LIMIT} }

InitLoop == pending = <<>> /\ \E save \in LoopSaves : InitWith(save, <<save>>)

NextLoops ==
    \/ TransitionTimer
    \/ NextLoop

SpecLoop == InitLoop /\ [][NextLoops]_vars

-----------------------------------------------------------------------------
(* Saving: choices, navigation and chat turns whose directive names, among  *)
(* its effects, a field of worldState that holds a string                  *)

StringFieldEffects == Directive([currentSceneId |-> 1], NULL, NULL)

SaveSubmit == Budget /\ ChatSubmitOf({"hello"})

SaveSettles == ReadDoneOf({"narrative"}, {NoDirective, StringFieldEffects})

NextSave ==
    \/ TransitionTimer
    \/ ChoiceClick
    \/ Navigate
    \/ SaveSubmit
    \/ FetchOk
    \/ SaveSettles
    \/ AbortReaction
    \/ Tick

SpecSave == Init /\ [][NextSave]_vars

-----------------------------------------------------------------------------
(* The history log: calls of addToHistory on saves whose dialogHistory is   *)
(* empty or close to the limit.  The entries are kept themselves, each with *)
(* the time it was written, so that their order can be read                 *)

HistoryLengths == {0, HISTORY_LIMIT - 2, HISTORY_LIMIT - 1, HISTORY_LIMIT}

HistorySaves ==
    { [DEFAULT_STATE EXCEPT
          !.dialogHistory =
              [i \in 1..n |-> [role |-> "npc", text |-> "line", timestamp |-> i]]] :
      n \in HistoryLengths }

InitHistory ==
    /\ \E state \in HistorySaves : InitWith(state, <<state>>)
    /\ pending = <<>>

\* Date.now() does not go back
Now(history) == IF history = <<>> THEN 1 ELSE history[Len(history)].timestamp + 1

AddToHistoryOf(texts) ==
    /\ Budget
    /\ \E role \in {"player", "npc"}, text \in texts :
          Dispatch(addEntryToHistory(Cur, role, text, Now(worldState.dialogHistory)))

AddToHistory == AddToHistoryOf({"", "line", "reply"})

NextHistory == AddToHistory

SpecHistory == InitHistory /\ [][NextHistory]_vars

-----------------------------------------------------------------------------
(* Flags: the engine started on saves that already hold flags *)

FlagSaves ==
    { [DEFAULT_STATE EXCEPT !.flags = flags] :
      flags \in {NoFlags, [has_note |-> TRUE],
                 [has_note |-> TRUE, met_inspector |-> FALSE]} }

InitFlags ==
    /\ \E state \in FlagSaves : InitWith(state, <<state>>)
    /\ pending = <<>>

\* a directive whose effects block names the flags map
FlagEffects == Directive([flags |-> 1, train_stability |-> -5], NULL, NULL)

FlagSubmit == Budget /\ ChatSubmitOf({"hello"})

FlagSettles == ReadDoneOf({"narrative"}, {NoDirective, FlagEffects})

NextFlags ==
    \/ ChoiceClick
    \/ ContinueClick
    \/ NewGame
    \/ NextLoop
    \/ FlagSubmit
    \/ TransitionTimer
    \/ FetchOk
    \/ FlagSettles
    \/ AbortReaction
    \/ Tick

SpecFlags == InitFlags /\ [][NextFlags]_vars

-----------------------------------------------------------------------------
(* Resets: the choices that change the scene or end the game, a new game    *)
(* and the next loop, requested at any moment                               *)

\* the second and third buttons: "look" and "walk" at start, "leave" and
\* "yield" in the inspector's car
SceneChoice == Budget /\ ChoiceClickOf({2, 3})

NextReset ==
    \/ TransitionTimer
    \/ SceneChoice
    \/ NewGame
    \/ NextLoop

SpecReset == Init /\ [][NextReset]_vars

-----------------------------------------------------------------------------
(* Properties of the effect and ending engine *)

\* C1: in every state reached through choices, directive effects, navigation
\* and loop advances, each of the four stats lies in [0,100]
StatsInRange == \A key \in Stats : worldState[key] \in STAT_MIN..STAT_MAX

\* a second loop in which noise was held at the maximum by the loop advance and
\* stability was clamped at the minimum by a choice's delta of -1000
StatsClamped ==
    /\ worldState.loop > 1
    /\ worldState.reality_noise = STAT_MAX
    /\ worldState.train_stability = STAT_MIN

\* C2: a step that settles a turn, and with it applies the effects of the
\* directive, changes no field of worldState other than the four stats (and the
\* history the narrative is appended to)
EffectsChangeOnlyStats ==
    [][ReadDone =>
          \A key \in DOMAIN worldState \ (Stats \cup {"dialogHistory"}) :
              worldState'[key] = worldState[key]]_vars

\* C3: checkEndings returns the first ending of the order train_anomaly,
\* detained, awakening, normal_arrival whose condition holds, normal_arrival
\* counting only from 5 scenes on, and no ending when none does; the ending the
\* free-form choice triggers is that one
EndingIsFirstThatHolds ==
    LET order == <<"train_anomaly", "detained", "awakening", "normal_arrival">>
        Holds(endingId) ==
            /\ EndingCondition(endingId, worldState)
            /\ endingId = "normal_arrival" => worldState.sceneCount >= 5
        First(endingId) ==
            \E i \in DOMAIN order :
                /\ order[i] = endingId
                /\ Holds(endingId)
                /\ \A j \in 1..(i - 1) : ~Holds(order[j])
    IN  /\ checkEndings(worldState) = NULL <=> \A i \in DOMAIN order : ~Holds(order[i])
        /\ checkEndings(worldState) # NULL => First(checkEndings(worldState))
        /\ worldState.train_stability <= 25 => checkEndings(worldState) = "train_anomaly"
        /\ endingOverlay # NULL => First(endingOverlay)
        /\ streams # <<>> => checkEndings(worldState) = NULL

\* the free-form choice was clicked and the detained ending shown in a state in
\* which the condition of the lower-priority awakening ending holds as well
DetainedBeforeAwakening ==
    /\ endingOverlay = "detained"
    /\ EndingCondition("awakening", worldState)

\* C4: while an ending is shown, a chat submission, a choice click or a
\* navigation changes nothing of worldState and starts no stream
EndingsAreTerminal ==
    [][(endingOverlay # NULL /\ (ChatSubmit \/ ChoiceClick \/ Navigate)) =>
          /\ worldState' = worldState
          /\ modelCalls' = modelCalls]_vars

-----------------------------------------------------------------------------
(* Properties of the dialogue session manager *)

\* C5: a non-empty submission made within the cooldown of the last admitted one
\* is not admitted, and one made after the cooldown has elapsed is admitted
AdmittedByCooldown ==
    [][ChatSubmitOf({"hello"}) =>
          IF sinceRequest < REQUEST_COOLDOWN_MS
          THEN admitted' = admitted
          ELSE admitted' = admitted + 1]_vars

\* C6: a non-empty submission made while a turn is streaming or within the
\* cooldown leaves worldState, lastRequestTime, the session in flight and its
\* controller as they were
RejectedIsNoOp ==
    [][(ChatSubmitOf({"hello"}) /\ (isStreaming \/ sinceRequest < REQUEST_COOLDOWN_MS)) =>
          UNCHANGED <<worldState, sinceRequest, streams, currentAbortController>>]_vars

\* C7: at most one streamLLM call exists at any time, it is the one the manager
\* is streaming, and it reads under the controller the manager holds
AtMostOneSession ==
    /\ Len(streams) <= 1
    /\ \A i \in DOMAIN streams :
          /\ isStreaming
          /\ streams[i].aborted \/ streams[i].token = currentAbortController

\* the second session of a loop is reading its stream, the first having ended
SecondSessionStreams ==
    /\ modelCalls = 2
    /\ \E i \in DOMAIN streams : streams[i].phase = "read"

\* C8: turnCount equals the number of submissions admitted in the loop, and
\* while a request is in flight the save holds that turnCount
TurnCountIsAdmitted ==
    /\ worldState.turnCount = admitted
    /\ streams # <<>> => saved # <<>> /\ saved[1].turnCount = worldState.turnCount

\* C9: a turnCount at the maximum shows the turn_limit ending with no session
\* started, and no loop issues more than 14 streaming requests
CallsWithinBudget ==
    /\ worldState.turnCount >= MAX_TURNS =>
          endingOverlay = "turn_limit" /\ ~isStreaming /\ currentAbortController = 0
    /\ modelCalls <= MAX_TURNS - 1

\* C10: no session is still awaiting a chunk once more than the watchdog
\* window has passed since the last one
StalledSessionEnds ==
    \A i \in DOMAIN streams : streams[i].sinceChunk <= STALL_TIMEOUT_MS

\* C11: no session is still consuming its stream more than 45 s after it began;
\* the time since the last chunk is never more than the age of the session
SessionEndsWithinHardTimeout ==
    \A i \in DOMAIN streams :
        ~(isStreaming /\ streams[i].sinceChunk > HARD_TIMEOUT_MS)

\* C12: from the moment a session's token is signalled, nothing of what the
\* session received is applied: the step that follows the cancellation changes no
\* stat, flag, scene or other field of worldState, shows no ending and schedules
\* no scene change, and what was settled before stays as it was
CancelledAppliesNothing ==
    [][AbortPending =>
          UNCHANGED <<worldState, saved, endingOverlay, transition, graceTimers,
                      renderedChoices, isTransitioning>>]_vars

\* a session was cancelled while reading its stream, in a loop in which an
\* earlier session has settled
CancelledWhileReading ==
    /\ modelCalls = 2
    /\ \E i \in DOMAIN streams : streams[i].aborted /\ streams[i].phase = "read"

\* what a step that settles narrative n and directive g is to change
SettledAsDirected(n, g) ==
    /\ worldState'.dialogHistory =
          IF n = "" THEN worldState.dialogHistory
          ELSE Min(HISTORY_LIMIT, worldState.dialogHistory + 1)
    /\ \A key \in Stats :
          worldState'[key] =
            IF key \in DOMAIN g.effects
            THEN Max(STAT_MIN, Min(STAT_MAX, worldState[key] + g.effects[key]))
            ELSE worldState[key]
    /\ worldState'.currentSceneId = worldState.currentSceneId
    /\ worldState'.playedScenes = worldState.playedScenes
    /\ transition' = transition
    /\ isTransitioning' = isTransitioning
    /\ graceTimers' =
          IF g.next # NULL /\ g.ending = NULL
          THEN Append(graceTimers, [next |-> g.next, remaining |-> GRACE_MS,
                                    stale |-> FALSE])
          ELSE graceTimers

\* C13: the step in which a stream ends normally adds one entry to dialogHistory
\* when the narrative is not empty and none otherwise, moves each stat the
\* directive names by its delta once (clamped) and no other stat, leaves the
\* current scene and the pending transition as they were, and schedules the
\* directive's scene change on a timer of 1.5 s; such a timer acts only once due
SettlesOnceThenWaits ==
    [][/\ \A n \in Narratives, g \in SettleDirectives :
            ReadDoneOf({n}, {g}) => SettledAsDirected(n, g)
       /\ GraceTimer => \E i \in DOMAIN graceTimers : graceTimers[i].remaining = 0]_vars

\* two turns have settled with the directive that adds 7 to inspector_trust and
\* names inspector_01: the stat moved by 7 each time, and the second scene
\* change is still waiting on its timer
SettledTwiceAndWaiting ==
    /\ streams = <<>>
    /\ worldState.inspector_trust = DEFAULT_STATE.inspector_trust + 14
    /\ \E i \in DOMAIN graceTimers :
          graceTimers[i].next = "inspector_01" /\ graceTimers[i].remaining = GRACE_MS

\* C16: a directive is applied whole or not at all: the step that settles a
\* directive whose ending id names no ending, and so shows no ending, changes
\* no stat either
DirectiveIsAtomic ==
    [][\A g \in SettleDirectives :
          (ReadDoneOf(Narratives, {g}) /\ g.ending \notin EndingIds \cup {NULL}) =>
             \A key \in Stats : worldState'[key] = worldState[key]]_vars

-----------------------------------------------------------------------------
(* Properties of the stream parser *)

\* the block of the content received has been opened and lacks its closing
\* fence, or closes fewer braces than it opens
TruncatedBlock ==
    /\ jsonMatch(fullContent).found
    /\ \/ Count(fullContent, FENCE) = 1
       \/ Count(jsonMatch(fullContent).text, LB) > Count(jsonMatch(fullContent).text, RB)

\* C14: a stream that ends with its structured block truncated, the closing
\* fence or the final closing brace missing, changes no stat
TruncatedBlockChangesNoStat ==
    [][(ReadEnd /\ TruncatedBlock) =>
          \A key \in Stats : worldState'[key] = worldState[key]]_vars

\* block texts that are not JSON and that the code's repair does not make JSON:
\* a word for a value, a final brace missing after a closing one, an object
\* left open twice, a value missing, and the empty text
NotJson ==
    { <<LB, EFFECTS, WORD, RB>>,
      <<LB, EFFECTS, LB, STAT, RB>>,
      <<LB, EFFECTS, LB, STAT>>,
      <<LB, EFFECTS>>,
      <<>> }

\* the content received holds a block whose text is not JSON
UnparsableBlock ==
    /\ jsonMatch(fullContent).found
    /\ trim(jsonMatch(fullContent).text) \in NotJson

\* C15: a stream that ends with a block that cannot be parsed changes nothing
\* of worldState but the history entry of its narrative, shows no ending,
\* schedules no scene change, and leaves the narrative displayed as it was
UnparsableBlockChangesNothing ==
    [][(ReadEnd /\ UnparsableBlock) =>
          /\ worldState' =
                [worldState EXCEPT !.dialogHistory =
                                      IF textContent = <<>> THEN @ ELSE @ + 1]
          /\ endingOverlay' = endingOverlay
          /\ graceTimers' = graceTimers
          /\ transition' = transition
          /\ textContent' = textContent]_vars

\* a turn has settled whose block held a word where a value belongs: the
\* narrative is displayed and in the history, and the stats are the initial ones
UnparsableBlockSettled ==
    /\ streams = <<>>
    /\ modelCalls = 1
    /\ trim(jsonMatch(fullContent).text) = <<LB, EFFECTS, WORD, RB>>
    /\ textContent = <<WORD>>
    /\ worldState.dialogHistory = 3
    /\ \A key \in Stats : worldState[key] = DEFAULT_STATE[key]

\* C17: when a stream that spelled a reasoning block, a visible text and a
\* structured block ends, whatever deltas it came in, the narrative displayed
\* is the visible text, trimmed, and the history gains one entry exactly when
\* that text is not empty
NarrativeIsVisibleText ==
    [][\A t \in ThinkParts \ {<<>>}, v \in VisibleParts, b \in BlockParts \ {<<>>} :
          (ReadEnd /\ fullContent = t \o v \o b) =>
             /\ textContent' = trim(v)
             /\ worldState'.dialogHistory =
                   worldState.dialogHistory + (IF trim(v) = <<>> THEN 0 ELSE 1)]_vars

\* a turn has settled whose body spelled, with white space inside the tags and
\* around the text, a reasoning block, two words and a block: the two words are
\* displayed and in the history
VisibleTextSettled ==
    /\ streams = <<>>
    /\ modelCalls = 1
    /\ pending = <<>>
    /\ Len(fullContent) = 30
    /\ textContent = <<WORD, SP, WORD>>
    /\ worldState.dialogHistory = 3

-----------------------------------------------------------------------------
(* Properties of the scene resolver *)

\* the authored scenes that are marked random, are not in playedScenes and
\* whose conditions hold: event_glitch asks for the flag met_inspector,
\* event_whisper for a reality_noise of at least 50
Eligible ==
    { id \in {"event_glitch", "event_whisper"} :
        /\ id \notin SeqToSet(worldState.playedScenes)
        /\ id = "event_glitch" =>
              /\ "met_inspector" \in DOMAIN worldState.flags
              /\ worldState.flags.met_inspector = TRUE
        /\ id = "event_whisper" => worldState.reality_noise >= 50 }

\* C18: the scene selectNextScene returns is unplayed, marked random and has
\* its conditions met, and it returns none, so that the default ending is
\* shown, exactly when no authored scene is all three
SelectsOnlyEligible ==
    [][(LeaveChoice /\ renderedChoices = "inspector_01" /\ ~isTransitioning) =>
          IF Eligible = {}
          THEN /\ endingOverlay' = "normal_arrival"
               /\ worldState'.currentSceneId = worldState.currentSceneId
          ELSE /\ worldState'.currentSceneId \in Eligible
               /\ endingOverlay' = endingOverlay]_vars

\* event_whisper was selected in a state in which event_glitch was unplayed as
\* well, its flag not being set
WhisperSelected ==
    /\ worldState.currentSceneId = "event_whisper"
    /\ worldState.sceneCount = 1
    /\ "event_glitch" \notin SeqToSet(worldState.playedScenes)
    /\ worldState.flags = [met_inspector |-> FALSE]

\* C19: a choice, a directive's scene change or a random event never makes
\* current, within a loop, a scene that is already in playedScenes
NeverRevisitsInLoop ==
    [][((ChoiceClick \/ GraceTimer \/ Navigate \/ ContinueClick)
          /\ worldState'.loop = worldState.loop
          /\ worldState'.currentSceneId # worldState.currentSceneId) =>
             worldState'.currentSceneId \notin SeqToSet(worldState.playedScenes)]_vars

\* C20: a request for a scene id that names no authored scene, made while no
\* transition is in progress, shows the default ending normal_arrival and
\* leaves currentSceneId as it was
UnknownSceneEndsGame ==
    [][(GraceTimer /\ ~isTransitioning) =>
          /\ endingOverlay' = "normal_arrival"
          /\ worldState'.currentSceneId = worldState.currentSceneId]_vars

\* the fields a scene transition works on
SceneFields ==
    Stats \cup {"currentSceneId", "playedScenes", "sceneCount", "flags"}

\* C21: while a transition is in progress, a choice click, a navigation, the
\* continue button or the delayed advance of a directive leaves currentSceneId,
\* playedScenes, sceneCount, the stats and the flags as they were, and starts
\* no second transition
TransitionsAreSerialized ==
    [][(isTransitioning /\ (ChoiceClick \/ Navigate \/ ContinueClick \/ GraceTimer)) =>
          /\ \A key \in SceneFields : worldState'[key] = worldState[key]
          /\ transition' = transition
          /\ isTransitioning']_vars

\* a navigation is in progress and the timer of a directive naming another
\* scene than the current one is due
AdvanceDueInTransition ==
    /\ isTransitioning
    /\ transition.kind = "nav"
    /\ \E i \in DOMAIN graceTimers :
          /\ graceTimers[i].remaining = 0
          /\ graceTimers[i].next # worldState.currentSceneId

\* C22: the step in which showScene accepts a scene leaves currentSceneId equal
\* to the id of that scene, an authored one, and the id in playedScenes; and
\* playedScenes holds no id twice
AcceptedSceneIsCurrentAndPlayed ==
    [][/\ (transition'.kind = "scene" /\ transition' # transition) =>
             /\ transition'.scene \in SceneIds
             /\ worldState'.currentSceneId = transition'.scene
             /\ transition'.scene \in SeqToSet(worldState'.playedScenes)
       /\ \A i, j \in DOMAIN worldState'.playedScenes :
             worldState'.playedScenes[i] = worldState'.playedScenes[j] => i = j]_vars

\* inspector_01 was accepted a second time within the loop: it is current, and
\* playedScenes holds it once
AcceptedAgain ==
    /\ transition.kind = "scene"
    /\ transition.scene = "inspector_01"
    /\ worldState.currentSceneId = "inspector_01"
    /\ worldState.sceneCount = 2
    /\ worldState.playedScenes = <<"start", "inspector_01">>

-----------------------------------------------------------------------------
(* Properties of the world state *)

\* C23: a loop advance adds 1 to loop, sets turnCount and sceneCount to 0,
\* empties playedScenes (the start scene it then shows being the only entry),
\* sets anomaly_awareness to min(100, floor(prev/2)+10) and reality_noise to
\* min(100, prev+5), draws train_stability from 75..85 and inspector_trust
\* from 20..40, and leaves flags and dialogHistory as they were
LoopAdvanceResets ==
    [][NextLoop =>
          /\ worldState'.loop = worldState.loop + 1
          /\ worldState'.turnCount = 0
          /\ worldState'.sceneCount = 0
          /\ worldState'.playedScenes \in {<<>>, <<"start">>}
          /\ worldState'.anomaly_awareness =
                IF (worldState.anomaly_awareness \div 2) + 10 > 100 THEN 100
                ELSE (worldState.anomaly_awareness \div 2) + 10
          /\ worldState'.reality_noise =
                IF worldState.reality_noise + 5 > 100 THEN 100
                ELSE worldState.reality_noise + 5
          /\ worldState'.train_stability \in 75..85
          /\ worldState'.inspector_trust \in 20..40
          /\ worldState'.flags = worldState.flags
          /\ worldState'.dialogHistory = worldState.dialogHistory]_vars

\* the loop after one that ended with an awareness of 7 and a noise of 96:
\* awareness 13, noise held at 100, the flag kept
SecondLoopStarted ==
    /\ worldState.loop = 2
    /\ worldState.anomaly_awareness = 13
    /\ worldState.reality_noise = 100
    /\ worldState.flags = [met_inspector |-> TRUE]
    /\ worldState.sceneCount = 0
    /\ worldState.turnCount = 0
    /\ worldState.playedScenes = <<"start">>

\* C24: in every state, writing worldState with saveState and reading it back
\* with loadOrCreateState gives worldState again, field by field
SaveRoundTrips ==
    loadOrCreateState(<<JSONstringify(worldState)>>) = worldState

\* C25: dialogHistory never holds more than 50 entries; a call of addToHistory
\* with a text appends its entry, and when that makes 51 entries the oldest is
\* dropped and the others keep their order; a call without text changes nothing
HistoryIsBoundedFifo ==
    [][LET old == worldState.dialogHistory
           new == worldState'.dialogHistory
       IN  /\ AddToHistoryOf({""}) => new = old
           /\ AddToHistoryOf({"line", "reply"}) =>
                 /\ Len(new) <= HISTORY_LIMIT
                 /\ new[Len(new)].timestamp = Now(old)
                 /\ SubSeq(new, 1, Len(new) - 1) =
                       IF Len(old) = HISTORY_LIMIT THEN Tail(old) ELSE old]_vars

\* a full history has taken three more entries: the three oldest are gone
OldestEvicted ==
    /\ Len(worldState.dialogHistory) = HISTORY_LIMIT
    /\ worldState.dialogHistory[1].timestamp = 4
    /\ worldState.dialogHistory[HISTORY_LIMIT].timestamp = HISTORY_LIMIT + 3

\* the flags the rendered choices can assign to the key
AssignedTo(key) ==
    { RenderedChoiceList[k].setFlags[key] :
        k \in { j \in DOMAIN RenderedChoiceList :
                  key \in DOMAIN RenderedChoiceList[j].setFlags } }

\* C26: startNewGame empties the flags; in every other step, the next loop
\* included, each flag stays in the map, and a key gets a new value only by a
\* choice click whose setFlags names it with that value
FlagsMergeAndPersist ==
    [][IF NewGame THEN worldState'.flags = NoFlags
       ELSE /\ \A key \in DOMAIN worldState.flags : key \in DOMAIN worldState'.flags
            /\ \A key \in DOMAIN worldState'.flags :
                  \/ /\ key \in DOMAIN worldState.flags
                     /\ worldState'.flags[key] = worldState.flags[key]
                  \/ /\ ChoiceClick
                     /\ worldState'.flags[key] \in AssignedTo(key)]_vars

\* a saved flag was overwritten by a choice, the other one kept, and both are
\* there in the next loop
FlagsInSecondLoop ==
    /\ worldState.loop = 2
    /\ worldState.flags = [has_note |-> TRUE, met_inspector |-> TRUE]

\* C27: turnCount and sceneCount are never negative, are 0 right after
\* startNextLoop, and no step other than a loop advance or a new game
\* decreases either of them
CountersNeverDecrease ==
    [][/\ worldState'.turnCount >= 0 /\ worldState'.sceneCount >= 0
       /\ NextLoop => worldState'.turnCount = 0 /\ worldState'.sceneCount = 0
       /\ ~(NextLoop \/ NewGame) =>
             /\ worldState'.turnCount >= worldState.turnCount
             /\ worldState'.sceneCount >= worldState.sceneCount]_vars

LocationIds == {LOCATIONS[i].id : i \in DOMAIN LOCATIONS}

\* C28: in every state currentSceneId is the id of an authored scene or the
\* id of one of the five locations
CurrentSceneIsKnown == worldState.currentSceneId \in SceneIds \cup LocationIds

\* C29: a step in which a streaming call ends, however it ends, leaves
\* isStreaming false, the controller cleared and the chat input enabled; and
\* with no call in flight and the cooldown over, a submitted text is admitted
StreamEndReturnsToIdle ==
    [][/\ Len(streams') < Len(streams) =>
             /\ ~isStreaming'
             /\ currentAbortController' = 0
             /\ ~chatInputDisabled'
       /\ (/\ streams = <<>>
           /\ sinceRequest >= REQUEST_COOLDOWN_MS
           /\ ChatSubmitOf({"hello"})) =>
             admitted' = admitted + 1]_vars

\* the first call has ended and a second submission has started its request
SecondSubmissionAdmitted ==
    /\ admitted = 2
    /\ modelCalls = 2
    /\ isStreaming /\ chatInputDisabled
    /\ Len(streams) = 1 /\ streams[1].phase = "fetch"

\* the repair as claimed: one closing brace appended to a text that opens more
\* braces than it closes
BalancedOnce(jsonStr) ==
    IF Count(jsonStr, LB) > Count(jsonStr, RB) THEN Append(jsonStr, RB) ELSE jsonStr

\* the directive the block of the content is after the claimed repair
Repaired(content) ==
    JSONparse(cleanJsonStr(BalancedOnce(trim(jsonMatch(content).text))))

\* C30: when a stream ends with a block that is JSON once a '+' before the
\* digits of a value is dropped and, where more braces are opened than closed,
\* one closing brace is appended, the block's effects, ending or next scene
\* are applied
RepairedBlockApplied ==
    [][(ReadEnd /\ jsonMatch(fullContent).found /\ Repaired(fullContent).parsed) =>
          /\ SettledAsDirected(NarrativeOf(textContent), Repaired(fullContent))
          /\ Repaired(fullContent).ending # NULL =>
                endingOverlay' = Repaired(fullContent).ending]_vars

\* the matches of /<\s*think/ in s
OpeningMarkers(s) ==
    {i \in DOMAIN s : s[i] = LT /\ At(s, SkipSpace(s, i + 1), THINK)}

\* the opening markers of s that no closing tag follows
Unclosed(s) ==
    {i \in OpeningMarkers(s) : \A c \in (i + 1)..Len(s) : CloseTagEnd(s, c) = 0}

\* C31: whenever the narrative received so far holds an opening reasoning
\* marker, written with or without inner white space, that nothing closes yet,
\* the narrative displayed holds nothing from that marker onward
ReasoningNeverShown ==
    LET narrative == currentNarrative(fullContent) IN
    Unclosed(narrative) # {} =>
        textContent =
            trim(StripCloseTags(
                    StripThinkBlocks(
                        SubSeq(narrative, 1, FirstIndex(Unclosed(narrative)) - 1), 1), 1))

\* conditions objects: flags, exact values, each kind of bound on either side
\* of the saved values, two bounds at once, and a key worldState does not hold
ConditionSamples ==
    { NoConditions,
      [flags |-> [met_inspector |-> TRUE]],
      [flags |-> [met_inspector |-> FALSE]],
      [flags |-> [met_inspector |-> TRUE], reality_noise |-> [min |-> 50]],
      [reality_noise |-> [exact |-> 50]],
      [reality_noise |-> [min |-> 50]],
      [reality_noise |-> [max |-> 49]],
      [reality_noise |-> [gte |-> 100]],
      [reality_noise |-> [lte |-> 0]],
      [reality_noise |-> [min |-> 49, max |-> 50]],
      [reality_noise |-> [gte |-> 50, lte |-> 49]],
      [inspector_trust |-> [exact |-> 30], reality_noise |-> [lte |-> 50]],
      [karma |-> [min |-> 1]],
      [karma |-> [exact |-> 7], reality_noise |-> [max |-> 0]] }

\* the value the claim gives checkConditions(conditions) in the current state
ConditionsMet(conditions) ==
    /\ "flags" \in DOMAIN conditions =>
          \A flagName \in DOMAIN conditions.flags :
             /\ flagName \in DOMAIN worldState.flags
             /\ worldState.flags[flagName] = conditions.flags[flagName]
    /\ \A key \in (DOMAIN conditions \ {"flags"}) \cap DOMAIN worldState :
          LET value == worldState[key]
              r == conditions[key]
          IN  /\ "exact" \in DOMAIN r => value = r.exact
              /\ "min" \in DOMAIN r => value >= r.min
              /\ "max" \in DOMAIN r => value <= r.max
              /\ "gte" \in DOMAIN r => value >= r.gte
              /\ "lte" \in DOMAIN r => value <= r.lte

\* C32: checkConditions is true exactly when every listed flag has its
\* required value and every listed key that worldState holds has the exact
\* value or lies within all the bounds given, ends included; a key worldState
\* does not hold is passed over
ConditionsAsClaimed ==
    \A conditions \in ConditionSamples :
        checkConditions(worldState, conditions) <=> ConditionsMet(conditions)

\* event_whisper, which asks for a reality_noise of at least 50, was selected
\* at a reality_noise of exactly 50
SelectedAtTheBound ==
    /\ transition.scene = "event_whisper"
    /\ worldState.sceneCount = 1
    /\ worldState.reality_noise = 50

\* C33: a choice click or a settled stream that changes a stat and thereby
\* makes checkEndings name an ending leaves an ending shown
EndingFollowsEffects ==
    [][(/\ ChoiceClick \/ ReadDone
        /\ \E key \in Stats : worldState'[key] # worldState[key]
        /\ checkEndings(worldState) = NULL
        /\ checkEndings(worldState') # NULL) =>
          endingOverlay' # NULL]_vars

NoTransitionWhileStreaming ==
    [][(isStreaming /\ ~(NewGame \/ NextLoop)) =>
          /\ worldState'.currentSceneId = worldState.currentSceneId
          /\ isTransitioning' => isTransitioning]_vars

\* C36: the delayed advance of a directive, when it runs after a new game or
\* the next loop has begun, leaves currentSceneId and playedScenes as they are
StaleAdvanceChangesNothing ==
    [][\A i \in DOMAIN graceTimers :
          (/\ graceTimers[i].stale
           /\ graceTimers[i].remaining = 0
           /\ graceTimers' = RemoveAt(graceTimers, i)
           /\ GraceTimer) =>
             /\ worldState'.currentSceneId = worldState.currentSceneId
             /\ worldState'.playedScenes = worldState.playedScenes]_vars

\* C37: when the stream ends, the content accumulated is the deltas sent before
\* the sentinel, in their order, however the body was cut into chunks
BufferIsDeltasBeforeSentinel ==
    [][WireEnd => fullContent = SentDeltas]_vars

\* the rendered buttons that handleChoice takes for dialogue or event choices
DialogueChoices ==
    { k \in DOMAIN RenderedChoiceList :
        \/ RenderedChoiceList[k].type \in {"dialogue", "event"}
        \/ RenderedChoiceList[k].type = NULL /\ RenderedChoiceList[k].hasQuotes }

\* C38: a click on a dialogue or event choice that admits no turn leaves the
\* stats and the flags as they were
EffectsOnlyWithAdmittedTurn ==
    [][(Budget /\ ChoiceClickOf(DialogueChoices) /\ admitted' = admitted) =>
          /\ \A key \in Stats : worldState'[key] = worldState[key]
          /\ worldState'.flags = worldState.flags]_vars

\* no stream in flight, no transition in progress, no timer pending
Quiescent ==
    /\ streams = <<>> /\ ~isStreaming
    /\ transition.kind = "none" /\ ~isTransitioning
    /\ graceTimers = <<>>

\* C39: whenever the engine is quiescent, the save in the store is the text of
\* the worldState in memory
SaveIsStateAtRest ==
    Quiescent => saved = <<JSONstringify(worldState)>>

\* C40: a scene transition that completes while sceneCount is 0, that is the
\* first one completed since init, a new game or a loop advance, leaves start
\* the current scene, recorded in playedScenes, with its choices rendered
ResetEndsAtStart ==
    [][(TransitionTimer /\ worldState.sceneCount = 0) =>
          /\ worldState'.currentSceneId = "start"
          /\ "start" \in SeqToSet(worldState'.playedScenes)
          /\ renderedChoices' = "start"]_vars

====
